---- MODULE Spec2Model ----
(***************************************************************************)
(* Model of lld-standalone.cpp: the wrapper that resolves a target triple  *)
(* from its invocation name, prepends the NetBSD customization flags,      *)
(* trims a leading -flavor pair, runs ld.lld and relays its status.        *)
(*                                                                         *)
(* Strings that the code inspects character by character (argv[0], triple  *)
(* strings) are sequences of chunks: "-", "." and "/" are the separator    *)
(* characters the code looks for, every other chunk is a run of characters *)
(* holding none of them.  Command-line arguments, which the code only      *)
(* compares as wholes, are plain strings.                                  *)
(***************************************************************************)
EXTENDS Integers, Sequences, FiniteSets, TLC

VARIABLES
  pc,            \* position in main
  argv0,         \* argv[0] as given by the caller (chunk sequence)
  args,          \* argv[1..argc-1] as given by the caller
  registry,      \* target identifiers llvm::TargetRegistry recognises
  defaultTriple, \* the string getDefaultTargetTriple() yields on this host
  Program,       \* result of findProgramByName ("" while unset or on failure)
  printTarget,   \* bool printTarget
  targetTriple,  \* static Triple targetTriple
  argc,          \* int argc as main mutates it
  argvOff,       \* how far main has advanced the argv pointer
  Argv,          \* std::vector<StringRef> Argv
  Result,        \* int Result of ExecuteAndWait
  execCount,     \* number of ExecuteAndWait calls made
  exitCode,      \* value main returned (meaningful once pc = "done")
  errOut,        \* lines written to WithColor::error()
  stdOut         \* lines written to outs()

vars == <<pc, argv0, args, registry, defaultTriple, Program, printTarget,
          targetTriple, argc, argvOff, Argv, Result, execCount,
          exitCode, errOut, stdOut>>

----------------------------------------------------------------------------
(* Bounds of the model *)

\* longest caller argument list explored
MaxArgs == 3
\* largest exit status of the downstream linker explored
MaxStatus == 2
\* longest argv[0], in chunks, explored by the triple-resolution specification
MaxNameLen == 5

----------------------------------------------------------------------------
(* Generic helpers *)

SeqsUpTo(S, n) == UNION {[1..k -> S] : k \in 0..n}

\* index of the last occurrence of c in s, 0 when there is none (npos)
RFind(s, c) ==
  IF \E i \in 1..Len(s) : s[i] = c
  THEN CHOOSE i \in 1..Len(s) : s[i] = c /\ \A j \in (i+1)..Len(s) : s[j] # c
  ELSE 0

\* index of the first occurrence of c in s, 0 when there is none
Find(s, c) ==
  IF \E i \in 1..Len(s) : s[i] = c
  THEN CHOOSE i \in 1..Len(s) : s[i] = c /\ \A j \in 1..(i-1) : s[j] # c
  ELSE 0

----------------------------------------------------------------------------
(* llvm::Triple as the code uses it *)

LD_LLD_PROGNAME == "ld.lld"

\* the path findProgramByName returns when ld.lld is on PATH
LldPath == "/usr/bin/ld.lld"

\* StringRef::split(Components, '-', MaxSplit): at most maxSplit cuts
RECURSIVE Split(_, _)
Split(s, maxSplit) ==
  LET i == Find(s, "-") IN
  IF i = 0 \/ maxSplit = 0 THEN <<s>>
  ELSE <<SubSeq(s, 1, i - 1)>> \o Split(SubSeq(s, i + 1, Len(s)), maxSplit - 1)

parseArch(c) ==
  IF Len(c) # 1 THEN "UnknownArch"
  ELSE CASE c[1] = "aarch64"    -> "aarch64"
         [] c[1] = "aarch64_be" -> "aarch64_be"
         [] c[1] = "i386"       -> "x86"
         [] c[1] = "x86_64"     -> "x86_64"
         [] c[1] = "arm"        -> "arm"
         [] c[1] = "armeb"      -> "armeb"
         [] c[1] = "thumb"      -> "thumb"
         [] c[1] = "thumbeb"    -> "thumbeb"
         [] c[1] = "powerpc"    -> "ppc"
         [] c[1] = "sparc"      -> "sparc"
         [] c[1] = "mips64"     -> "mips64"
         [] OTHER               -> "UnknownArch"

parseOS(c) ==
  IF Len(c) = 0 THEN "UnknownOS"
  ELSE CASE c[1] = "netbsd"  -> "NetBSD"
         [] c[1] = "linux"   -> "Linux"
         [] c[1] = "freebsd" -> "FreeBSD"
         [] OTHER            -> "UnknownOS"

parseEnvironment(c) ==
  IF Len(c) = 0 THEN "UnknownEnvironment"
  ELSE CASE c[1] = "eabihf"    -> "EABIHF"
         [] c[1] = "eabi"      -> "EABI"
         [] c[1] = "gnueabihf" -> "GNUEABIHF"
         [] c[1] = "gnueabi"   -> "GNUEABI"
         [] c[1] = "gnu"       -> "GNU"
         [] OTHER              -> "UnknownEnvironment"

\* the default-constructed static Triple
EmptyTriple ==
  [str |-> <<>>, arch |-> "UnknownArch", os |-> "UnknownOS",
   env |-> "UnknownEnvironment"]

\* llvm::Triple(Str): arch, vendor, OS, environment are the first four
\* '-'-separated components of the string, taken in that order
Triple(s) ==
  LET c == Split(s, 3) IN
  [str  |-> s,
   arch |-> parseArch(c[1]),
   os   |-> IF Len(c) > 2 THEN parseOS(c[3]) ELSE "UnknownOS",
   env  |-> IF Len(c) > 3 THEN parseEnvironment(c[4]) ELSE "UnknownEnvironment"]

----------------------------------------------------------------------------
(* setTargetTriple *)

\* llvm::sys::path::filename: the last component of the path
filename(path) ==
  LET i == RFind(path, "/") IN
  IF Len(path) = 0 THEN <<>>
  ELSE IF i = Len(path)
       THEN IF \A j \in 1..Len(path) : path[j] = "/" THEN <<"/">> ELSE <<".">>
       ELSE SubSeq(path, i + 1, Len(path))

\* llvm::sys::path::stem: the filename up to its last '.'
stem(path) ==
  LET fname == filename(path)
      pos   == RFind(fname, ".")
  IN IF pos = 0 THEN fname
     ELSE IF fname = <<".">> \/ fname = <<".", ".">> THEN fname
     ELSE SubSeq(fname, 1, pos - 1)

\* llvm::TargetRegistry::lookupTarget(prefix, targetError) != nullptr
lookupTarget(prefix, reg) == prefix \in reg

\* setTargetTriple cutting the program name at its first '-' (find for rfind)
setTargetTriple_firstDash(a0, reg, dflt) ==
  LET ProgName      == stem(a0)
      lastComponent == Find(ProgName, "-")
      prefix        == SubSeq(ProgName, 1, lastComponent - 1)
  IN IF lastComponent # 0 /\ lookupTarget(prefix, reg)
     THEN Triple(prefix)
     ELSE Triple(dflt)

\* the Triple setTargetTriple stores for a given argv[0]
setTargetTriple(a0, reg, dflt) ==
  LET ProgName      == stem(a0)
      lastComponent == RFind(ProgName, "-")
      prefix        == SubSeq(ProgName, 1, lastComponent - 1)
  IN IF lastComponent # 0 /\ lookupTarget(prefix, reg)
     THEN Triple(prefix)
     ELSE Triple(dflt)

----------------------------------------------------------------------------
(* prependNetBSDCustomization / prependTargetCustomization *)

\* first switch on getArch(): the default image base address
imageBase(t) ==
  IF t.arch \in {"aarch64", "aarch64_be"}
  THEN <<"--image-base=0x200100000">>
  ELSE <<>>

\* archSearchPath with the GNUEABIHF case label left out
archSearchPath_noGnuHf(t) ==
  CASE t.arch = "x86" -> <<"-L=/usr/lib/i386">>
    [] t.arch \in {"arm", "armeb", "thumb", "thumbeb"} ->
         (CASE t.env \in {"EABI", "GNUEABI"} -> <<"-L=/usr/lib/eabi">>
            [] t.env = "EABIHF"              -> <<"-L=/usr/lib/eabihf">>
            [] OTHER                         -> <<"-L=/usr/lib/oabi">>)
    [] t.arch = "ppc"   -> <<"-L=/usr/lib/powerpc">>
    [] t.arch = "sparc" -> <<"-L=/usr/lib/sparc">>
    [] OTHER            -> <<>>

\* second switch on getArch(): the architecture's default search path
archSearchPath(t) ==
  CASE t.arch = "x86" -> <<"-L=/usr/lib/i386">>
    [] t.arch \in {"arm", "armeb", "thumb", "thumbeb"} ->
         (CASE t.env \in {"EABI", "GNUEABI"}     -> <<"-L=/usr/lib/eabi">>
            [] t.env \in {"EABIHF", "GNUEABIHF"} -> <<"-L=/usr/lib/eabihf">>
            [] OTHER                             -> <<"-L=/usr/lib/oabi">>)
    [] t.arch = "ppc"   -> <<"-L=/usr/lib/powerpc">>
    [] t.arch = "sparc" -> <<"-L=/usr/lib/sparc">>
    [] OTHER            -> <<>>

prependNetBSDCustomization(a, t) ==
  a \o <<"--no-rosegment", "--disable-new-dtags", "-znognustack">>
    \o imageBase(t) \o archSearchPath(t) \o <<"-L=/usr/lib">>

\* isOSNetBSD answering yes for FreeBSD as well
isOSNetBSD_anyBSD(t) == t.os \in {"NetBSD", "FreeBSD"}

isOSNetBSD(t) == t.os = "NetBSD"

prependTargetCustomization(a, t) ==
  IF isOSNetBSD(t) THEN prependNetBSDCustomization(a, t) ELSE a

----------------------------------------------------------------------------
(* main: the pure parts of its steps *)

\* args.hasArg(OPT_v) || args.hasArg(OPT_version) on the parsed argv[1..]:
\* the option table knows the flags -v and -version and nothing else
hasVersionArg(a) == \E i \in 1..Len(a) : a[i] \in {"-v", "-version"}

\* argv[k] once main has advanced the argv pointer by off (off >= 1)
ArgAt(a, off, k) == a[off + k]

\* trimFlavor dropping the -flavor token alone (argc -= 1; argv += 1)
trimFlavor_dropOne(a, c, off) ==
  IF c > 1 /\ ArgAt(a, off, 0) = "-flavor"
  THEN [argc |-> c - 1, off |-> off + 1, err |-> c <= 2]
  ELSE [argc |-> c, off |-> off, err |-> FALSE]

\* the "Trim -flavor option" block: the new argc and argv offset, and whether
\* the missing-value error was written
trimFlavor(a, c, off) ==
  IF c > 1 /\ ArgAt(a, off, 0) = "-flavor"
  THEN [argc |-> c - 2, off |-> off + 2, err |-> c <= 2]
  ELSE [argc |-> c, off |-> off, err |-> FALSE]

\* appendOriginal copying the caller's whole list, the trimming forgotten
appendOriginal_untrimmed(v, a, c, off) == v \o a

\* appendOriginal with its loop starting at i = 1
appendOriginal_skipFirst(v, a, c, off) ==
  v \o [i \in 1..(c - 1) |-> ArgAt(a, off, i)]

\* for (int i = 0; i < argc; ++i) Argv.push_back(argv[i]);
appendOriginal(v, a, c, off) == v \o [i \in 1..c |-> ArgAt(a, off, i - 1)]

\* what ExecuteAndWait can return: -1 when the program could not be executed,
\* -2 when it was started and crashed, otherwise the program's exit status
ExecResults == {-2, -1} \cup (0..MaxStatus)

\* returnValue ending a completed run with "return 0"
returnValue_zero(r) == IF r < 0 THEN 1 ELSE 0

\* the value main returns after ExecuteAndWait
returnValue(r) == IF r < 0 THEN 1 ELSE r

\* the line main prints after a successful run
targetLine(p, t) == IF p THEN <<<<"Target: ", t.str>>>> ELSE <<>>

----------------------------------------------------------------------------
(* main: its steps *)

\* FindProgram with the "return 1" of the failure branch missing
FindProgram_noReturn ==
  /\ pc = "find"
  /\ \E ok \in BOOLEAN :
       IF ok
       THEN /\ Program' = LldPath
            /\ UNCHANGED <<errOut, exitCode>>
       ELSE /\ Program' = ""
            /\ errOut' = Append(errOut, <<"unable to find", LD_LLD_PROGNAME>>)
            /\ UNCHANGED exitCode
  /\ pc' = "parse"
  /\ UNCHANGED <<argv0, args, registry, defaultTriple, printTarget,
                 targetTriple, argc, argvOff, Argv, Result,
                 execCount, stdOut>>

\* sys::findProgramByName(LD_LLD_PROGNAME) and the early return
FindProgram ==
  /\ pc = "find"
  /\ \E ok \in BOOLEAN :
       IF ok
       THEN /\ Program' = LldPath
            /\ pc' = "parse"
            /\ UNCHANGED <<errOut, exitCode>>
       ELSE /\ Program' = ""
            /\ errOut' = Append(errOut, <<"unable to find", LD_LLD_PROGNAME>>)
            /\ exitCode' = 1
            /\ pc' = "done"
  /\ UNCHANGED <<argv0, args, registry, defaultTriple, printTarget,
                 targetTriple, argc, argvOff, Argv, Result,
                 execCount, stdOut>>

\* parser.ParseArgs(argsArr.slice(1)) and the printTarget test
ParseArgs ==
  /\ pc = "parse"
  /\ printTarget' = hasVersionArg(args)
  /\ pc' = "triple"
  /\ UNCHANGED <<argv0, args, registry, defaultTriple, Program, targetTriple,
                 argc, argvOff, Argv, Result, execCount, exitCode,
                 errOut, stdOut>>

\* setTargetTriple(argsArr[0], args)
SetTargetTriple ==
  /\ pc = "triple"
  /\ targetTriple' = setTargetTriple(argv0, registry, defaultTriple)
  /\ pc' = "argv"
  /\ UNCHANGED <<argv0, args, registry, defaultTriple, Program, printTarget,
                 argc, argvOff, Argv, Result, execCount, exitCode,
                 errOut, stdOut>>

\* argc--; argv++; Argv.push_back(*Program)
BeginArgv ==
  /\ pc = "argv"
  /\ argc' = argc - 1
  /\ argvOff' = argvOff + 1
  /\ Argv' = <<Program>>
  /\ pc' = "custom"
  /\ UNCHANGED <<argv0, args, registry, defaultTriple, Program, printTarget,
                 targetTriple, Result, execCount, exitCode,
                 errOut, stdOut>>

\* prependTargetCustomization(Argv)
PrependTargetCustomization ==
  /\ pc = "custom"
  /\ Argv' = prependTargetCustomization(Argv, targetTriple)
  /\ pc' = "trim"
  /\ UNCHANGED <<argv0, args, registry, defaultTriple, Program, printTarget,
                 targetTriple, argc, argvOff, Result, execCount,
                 exitCode, errOut, stdOut>>

\* the "Trim -flavor option" block
TrimFlavor ==
  /\ pc = "trim"
  /\ LET r == trimFlavor(args, argc, argvOff) IN
       /\ argc' = r.argc
       /\ argvOff' = r.off
       /\ errOut' = IF r.err
                    THEN Append(errOut, <<"missing arg value for", "-flavor">>)
                    ELSE errOut
  /\ pc' = "append"
  /\ UNCHANGED <<argv0, args, registry, defaultTriple, Program, printTarget,
                 targetTriple, Argv, Result, execCount, exitCode, stdOut>>

\* the loop appending the original options
AppendOriginal ==
  /\ pc = "append"
  /\ Argv' = appendOriginal(Argv, args, argc, argvOff)
  /\ pc' = "exec"
  /\ UNCHANGED <<argv0, args, registry, defaultTriple, Program, printTarget,
                 targetTriple, argc, argvOff, Result, execCount,
                 exitCode, errOut, stdOut>>

\* sys::ExecuteAndWait(*Program, Argv, ...)
ExecuteAndWait ==
  /\ pc = "exec"
  /\ \E r \in ExecResults : Result' = r
  /\ execCount' = execCount + 1
  /\ pc' = "result"
  /\ UNCHANGED <<argv0, args, registry, defaultTriple, Program, printTarget,
                 targetTriple, argc, argvOff, Argv, exitCode,
                 errOut, stdOut>>

\* Finish printing the Target line before it tests Result
Finish_printFirst ==
  /\ pc = "result"
  /\ stdOut' = stdOut \o targetLine(printTarget, targetTriple)
  /\ errOut' = IF Result < 0
               THEN Append(errOut, <<"ErrMsg", LD_LLD_PROGNAME>>)
               ELSE errOut
  /\ exitCode' = returnValue(Result)
  /\ pc' = "done"
  /\ UNCHANGED <<argv0, args, registry, defaultTriple, Program, printTarget,
                 targetTriple, argc, argvOff, Argv, Result,
                 execCount>>

\* the tail of main: launch error, Target line, return
Finish ==
  /\ pc = "result"
  /\ IF Result < 0
     THEN /\ errOut' = Append(errOut, <<"ErrMsg", LD_LLD_PROGNAME>>)
          /\ UNCHANGED stdOut
     ELSE /\ stdOut' = stdOut \o targetLine(printTarget, targetTriple)
          /\ UNCHANGED errOut
  /\ exitCode' = returnValue(Result)
  /\ pc' = "done"
  /\ UNCHANGED <<argv0, args, registry, defaultTriple, Program, printTarget,
                 targetTriple, argc, argvOff, Argv, Result,
                 execCount>>

----------------------------------------------------------------------------
(* The whole program, over a few invocation names and every short argument *)
(* list                                                                     *)

Tokens == {"-flavor", "-v", "-version", "a.o"}

ProgNames ==
  { <<"ld">>,
    <<"aarch64", "-", "-", "netbsd", "-", "ld">>,
    <<"arm", "-", "-", "netbsd", "-", "eabihf", "-", "ld", ".", "lld">> }

Registries ==
  { {},
    { <<"aarch64", "-", "-", "netbsd">>,
      <<"arm", "-", "-", "netbsd", "-", "eabihf">> } }

HostTriples ==
  { <<"x86_64", "-", "unknown", "-", "linux", "-", "gnu">>,
    <<"i386", "-", "-", "netbsd">> }

\* what main has before its first statement, whatever the inputs
Start ==
  /\ Program = ""
  /\ printTarget = FALSE
  /\ targetTriple = EmptyTriple
  /\ argc = Len(args) + 1
  /\ argvOff = 0
  /\ Argv = <<>>
  /\ Result = 0
  /\ execCount = 0
  /\ exitCode = 0
  /\ errOut = <<>>
  /\ stdOut = <<>>

Init ==
  /\ pc = "find"
  /\ argv0 \in ProgNames
  /\ args \in SeqsUpTo(Tokens, MaxArgs)
  /\ registry \in Registries
  /\ defaultTriple \in HostTriples
  /\ Start

Next ==
  \/ FindProgram
  \/ ParseArgs
  \/ SetTargetTriple
  \/ BeginArgv
  \/ PrependTargetCustomization
  \/ TrimFlavor
  \/ AppendOriginal
  \/ ExecuteAndWait
  \/ Finish

Spec == Init /\ [][Next]_vars

----------------------------------------------------------------------------
(* Triple resolution alone, over every short invocation name *)

NameChunks == {"aarch64", "ld", "-", ".", "/"}

NameRegistries ==
  { {},
    { <<"aarch64">> },
    { <<"aarch64">>, <<"aarch64", "-", "ld">> } }

\* main at the call of setTargetTriple: ld.lld was found, no argument given
InitTriple ==
  /\ pc = "triple"
  /\ argv0 \in SeqsUpTo(NameChunks, MaxNameLen)
  /\ args = <<>>
  /\ registry \in NameRegistries
  /\ defaultTriple \in HostTriples
  /\ Program = LldPath
  /\ printTarget = FALSE
  /\ targetTriple = EmptyTriple
  /\ argc = 1
  /\ argvOff = 0
  /\ Argv = <<>>
  /\ Result = 0
  /\ execCount = 0
  /\ exitCode = 0
  /\ errOut = <<>>
  /\ stdOut = <<>>

NextTriple == SetTargetTriple

SpecTriple == InitTriple /\ [][NextTriple]_vars

----------------------------------------------------------------------------
(* The customization table alone, over every architecture, OS and          *)
(* environment of the host's default triple                                 *)

ArchNames ==
  {"aarch64", "aarch64_be", "i386", "x86_64", "arm", "armeb", "thumb",
   "thumbeb", "powerpc", "sparc", "mips64", "riscv64"}

OSNames == {"netbsd", "linux", "freebsd", "none"}

EnvNames == {"eabi", "eabihf", "gnueabi", "gnueabihf", "gnu", "elf"}

AllTriples ==
  { <<a, "-", "unknown", "-", o, "-", e>> :
      a \in ArchNames, o \in OSNames, e \in EnvNames }

\* main at the call of prependTargetCustomization: invoked as plain "ld"
\* with no argument, so the triple is the host's default
InitCustom ==
  /\ pc = "custom"
  /\ argv0 = <<"ld">>
  /\ args = <<>>
  /\ registry = {}
  /\ defaultTriple \in AllTriples
  /\ Program = LldPath
  /\ printTarget = FALSE
  /\ targetTriple = setTargetTriple(argv0, registry, defaultTriple)
  /\ argc = 0
  /\ argvOff = 1
  /\ Argv = <<Program>>
  /\ Result = 0
  /\ execCount = 0
  /\ exitCode = 0
  /\ errOut = <<>>
  /\ stdOut = <<>>

NextCustom == PrependTargetCustomization

SpecCustom == InitCustom /\ [][NextCustom]_vars

----------------------------------------------------------------------------
(* Vocabulary of the properties *)

\* main has built the vector it hands to ExecuteAndWait
Assembled == pc \in {"exec", "result"} \/ (pc = "done" /\ execCount = 1)

\* main has returned after running the linker
Ran == pc = "done" /\ execCount = 1

\* main has returned because ld.lld was not found
LookupFailed == pc = "done" /\ execCount = 0

\* the caller's list begins with -flavor and one more token
LeadingPair == Len(args) >= 2 /\ args[1] = "-flavor"

\* the caller's list with only a leading -flavor pair removed
CallerKept == IF LeadingPair THEN SubSeq(args, 3, Len(args)) ELSE args

Count(s, x) == Cardinality({i \in 1..Len(s) : s[i] = x})

VersionFlags == {"-v", "-version"}

Workarounds == <<"--no-rosegment", "--disable-new-dtags", "-znognustack">>

\* the decision table of the NetBSD flags between the workarounds and
\* -L=/usr/lib
TableImageBase(t) ==
  IF t.arch = "aarch64" \/ t.arch = "aarch64_be"
  THEN <<"--image-base=0x200100000">> ELSE <<>>

TablePath(t) ==
  IF t.arch = "x86" THEN <<"-L=/usr/lib/i386">>
  ELSE IF t.arch = "ppc" THEN <<"-L=/usr/lib/powerpc">>
  ELSE IF t.arch = "sparc" THEN <<"-L=/usr/lib/sparc">>
  ELSE IF t.arch \in {"arm", "armeb", "thumb", "thumbeb"}
       THEN IF t.env \in {"EABI", "GNUEABI"} THEN <<"-L=/usr/lib/eabi">>
            ELSE IF t.env \in {"EABIHF", "GNUEABIHF"}
                 THEN <<"-L=/usr/lib/eabihf">>
                 ELSE <<"-L=/usr/lib/oabi">>
  ELSE <<>>

TableFlags(t) ==
  IF t.os = "NetBSD"
  THEN Workarounds \o TableImageBase(t) \o TablePath(t) \o <<"-L=/usr/lib">>
  ELSE <<>>

\* the flags main has put behind the linker path
Flags == SubSeq(Argv, 2, Len(Argv))

FlavorError == <<"missing arg value for", "-flavor">>

FlavorErrorReported == \E i \in 1..Len(errOut) : errOut[i] = FlavorError

\* the file name of argv[0], the part behind its last '/'
InvocationName == SubSeq(argv0, RFind(argv0, "/") + 1, Len(argv0))

\* where the extension of the invocation name begins (past its end if none)
ExtStart ==
  LET n == InvocationName IN
  IF RFind(n, ".") = 0 THEN Len(n) + 1 ELSE RFind(n, ".")

\* the positions of the '-' that ends a prefix followed by a '-'-free suffix
\* inside the stem of the invocation name
LastDashes ==
  LET n == InvocationName IN
  { i \in 1..(ExtStart - 1) :
      n[i] = "-" /\ \A j \in (i + 1)..(ExtStart - 1) : n[j] # "-" }

----------------------------------------------------------------------------
(* C1 *)

\* C1: the vector handed to ExecuteAndWait is the linker path, then the
\* customization flags of the resolved triple in table order, then the
\* caller's arguments in order with only a leading -flavor pair removed.
C1_ArgvShape ==
  Assembled => Argv = <<Program>> \o TableFlags(targetTriple) \o CallerKept

C1_Witness ==
  /\ pc = "result"
  /\ LeadingPair
  /\ Len(args) = 3
  /\ targetTriple.os = "NetBSD"
  /\ Len(Argv) = 7

----------------------------------------------------------------------------
(* C2 *)

\* C2 as stated: once the linker was found and launched (ExecuteAndWait did
\* not report a failure to execute), the exit code is the returned status,
\* and exit code 1 that is not the linker's own status 1 means the linker was
\* not found or not launched.
C2_Original ==
  Ran => /\ (Result # -1 => exitCode = Result)
         /\ (exitCode = 1 /\ Result # 1 => Result = -1)

\* C2 amended: a non-negative status is returned unchanged; every negative
\* status (failure to execute, or a linker that crashed) and a failed lookup
\* give exit code 1.
C2_ExitCode ==
  /\ Ran => exitCode = (IF Result >= 0 THEN Result ELSE 1)
  /\ LookupFailed => exitCode = 1 /\ Program = ""

C2_Witness == Ran /\ Result = 2 /\ exitCode = 2

----------------------------------------------------------------------------
(* C3 *)

\* C3 as stated: the forwarded vector never holds a -flavor token.
C3_Original == Assembled => \A i \in 1..Len(Argv) : Argv[i] # "-flavor"

\* C3 amended: the -flavor tokens forwarded are exactly those of the caller
\* that are not the first token of a list of two or more arguments, nor the
\* token right after such a leading -flavor; a lone -flavor and a -flavor
\* further down the list are forwarded.
C3_FlavorForwarded ==
  Assembled =>
    Count(Argv, "-flavor") =
      Cardinality({j \in 1..Len(args) :
                     args[j] = "-flavor" /\ (LeadingPair => j >= 3)})

C3_Witness ==
  /\ pc = "result"
  /\ args = <<"-flavor", "a.o", "-flavor">>
  /\ Count(Argv, "-flavor") = 1

----------------------------------------------------------------------------
(* C4 *)

\* C4 as stated: every -v and -version of the caller is forwarded, and a run
\* that set printTarget forwards such a token.
C4_Original ==
  Assembled =>
    /\ \A f \in VersionFlags : Count(Argv, f) = Count(args, f)
    /\ printTarget => \E i \in 1..Len(Argv) : Argv[i] \in VersionFlags

\* C4 amended: every -v and -version of the caller is forwarded, in place,
\* except one standing right after a leading -flavor, which is removed as
\* that flag's value.
C4_VersionForwarded ==
  Assembled =>
    /\ \A f \in VersionFlags :
         Count(Argv, f) =
           Count(args, f) - (IF LeadingPair /\ args[2] = f THEN 1 ELSE 0)
    /\ \A j \in 1..Len(args) :
         args[j] \in VersionFlags /\ ~(LeadingPair /\ j <= 2) =>
           Argv[Len(Argv) - Len(args) + j] = args[j]

C4_Witness ==
  /\ pc = "result"
  /\ args = <<"-flavor", "-v", "-version">>
  /\ printTarget
  /\ Count(Argv, "-version") = 1

----------------------------------------------------------------------------
(* C5 *)

\* C5 as stated: whenever ExecuteAndWait returned, with any result, exactly
\* one Target line is printed if -v or -version is among the arguments and
\* none otherwise, and never before ExecuteAndWait returned.
C5_Original ==
  /\ Ran => stdOut = (IF \E i \in 1..Len(args) : args[i] \in VersionFlags
                      THEN <<<<"Target: ", targetTriple.str>>>> ELSE <<>>)
  /\ stdOut # <<>> => Ran

\* C5 amended: the one Target line is printed only when ExecuteAndWait
\* returned a non-negative status; after a negative status nothing is
\* printed.
C5_TargetLine ==
  /\ Ran => stdOut =
              (IF Result >= 0 /\ \E i \in 1..Len(args) : args[i] \in VersionFlags
               THEN <<<<"Target: ", targetTriple.str>>>> ELSE <<>>)
  /\ stdOut # <<>> => Ran

C5_Witness ==
  /\ Ran
  /\ Result = 2
  /\ args = <<"a.o", "-v">>
  /\ stdOut = <<<<"Target: ", targetTriple.str>>>>

----------------------------------------------------------------------------
(* C6 *)

\* C6: the missing-value error is written exactly when -flavor is the first
\* argument and nothing follows it, and a run that wrote it still runs the
\* linker once.
C6_MissingValue ==
  /\ pc \in {"append", "exec", "result"} \/ Ran =>
       (FlavorErrorReported <=> (Len(args) = 1 /\ args[1] = "-flavor"))
  /\ Ran /\ FlavorErrorReported /\ Result >= 0 => exitCode = Result

----------------------------------------------------------------------------
(* C7 *)

\* C7: a failed lookup ends the run with exit code 1 and the one error that
\* names ld.lld, before the arguments are parsed, the triple resolved, the
\* vector built, the linker run or a Target line printed; no later step is
\* reached without the linker's path.
C7_LookupFailure ==
  /\ LookupFailed =>
       /\ exitCode = 1
       /\ errOut = <<<<"unable to find", "ld.lld">>>>
       /\ stdOut = <<>>
       /\ printTarget = FALSE
       /\ targetTriple = EmptyTriple
       /\ Argv = <<>>
  /\ pc \notin {"find", "done"} \/ Ran => Program = LldPath

C7_Witness ==
  /\ LookupFailed
  /\ args = <<"-version", "-v">>
  /\ exitCode = 1

----------------------------------------------------------------------------
(* C8 *)

\* C8 as stated: whenever the invocation name splits at some '-' into a
\* registered prefix and a suffix, the triple is the parsed prefix; when no
\* such split exists it is the host's default.
C8_Original ==
  pc = "argv" =>
    LET n == InvocationName
        splits == {i \in 1..Len(n) :
                     n[i] = "-" /\ SubSeq(n, 1, i - 1) \in registry}
    IN /\ \A i \in splits : targetTriple = Triple(SubSeq(n, 1, i - 1))
       /\ splits = {} => targetTriple = Triple(defaultTriple)

\* C8 amended: only the split at the last '-' of the name's stem (the name
\* without its last extension) counts: the triple is the parsed prefix when
\* that prefix is registered and the host's default in every other case.
C8_Resolution ==
  pc = "argv" =>
    LET n == InvocationName IN
    /\ \A i \in LastDashes :
         targetTriple = IF SubSeq(n, 1, i - 1) \in registry
                        THEN Triple(SubSeq(n, 1, i - 1))
                        ELSE Triple(defaultTriple)
    /\ LastDashes = {} => targetTriple = Triple(defaultTriple)
    /\ targetTriple # EmptyTriple

C8_Witness ==
  /\ pc = "argv"
  /\ argv0 = <<"/", "aarch64", "-", "ld", ".">>
  /\ targetTriple = Triple(<<"aarch64">>)

----------------------------------------------------------------------------
(* C9 *)

\* C9: for a NetBSD triple the customization flags begin with the three
\* workaround flags in order and end with -L=/usr/lib, whatever the
\* architecture and environment; for any other OS there is none.
C9_FlagShape ==
  pc = "trim" =>
    IF targetTriple.os = "NetBSD"
    THEN /\ Len(Flags) >= 4
         /\ SubSeq(Flags, 1, 3) = Workarounds
         /\ Flags[Len(Flags)] = "-L=/usr/lib"
    ELSE Flags = <<>>

C9_Witness ==
  /\ pc = "trim"
  /\ targetTriple.os = "NetBSD"
  /\ targetTriple.arch = "mips64"
  /\ Len(Flags) = 4

----------------------------------------------------------------------------
(* C10 *)

\* C10: for a NetBSD triple the flags between the workarounds and
\* -L=/usr/lib are the image base (aarch64, aarch64_be only) followed by at
\* most one architecture path as the decision table gives it; the list has
\* 4 or 5 flags and never both an image base and an architecture path.
C10_DecisionTable ==
  pc = "trim" /\ targetTriple.os = "NetBSD" =>
    /\ SubSeq(Flags, 4, Len(Flags) - 1) =
         TableImageBase(targetTriple) \o TablePath(targetTriple)
    /\ Len(Flags) \in {4, 5}
    /\ ~(TableImageBase(targetTriple) # <<>> /\ TablePath(targetTriple) # <<>>)

C10_Witness ==
  /\ pc = "trim"
  /\ targetTriple.os = "NetBSD"
  /\ targetTriple.arch = "thumbeb"
  /\ targetTriple.env = "GNUEABIHF"
  /\ Flags[4] = "-L=/usr/lib/eabihf"

====
